---- MODULE Spec2Model ----
(***************************************************************************)
(* A model of the multithreaded web crawler: the URL frontier              *)
(* (url_frontier.cpp), the worker pool (thread_manager.cpp), the sharded   *)
(* graph store (storage_manager.cpp) and the coordinator (main).           *)
(*                                                                         *)
(* Strings are sequences of one-character strings, so that the length      *)
(* checks and the domain extraction are computed as the code computes      *)
(* them.  Every call on the frontier that takes queue_mutex is one atomic  *)
(* step (its critical section); batch_enqueue is one step per URL.         *)
(***************************************************************************)
EXTENDS Integers, Sequences, FiniteSets, TLC

\* ------------------------------------------------------------------ bounds

\* the largest num_threads main is started with
MaxThreads == 2
\* the largest max_pages main is started with
MaxBudget == 2
\* the longest link list a fetched page yields, and the longest batch a
\* frontier client passes to batch_enqueue
MaxLinks == 2
\* the largest max_pages of the crawls followed to their end under fairness
MaxFairBudget == 1
\* the PageRank iterations followed: the largest number the exact ranks of
\* the model's graphs stay within the integers for (main asks for 30)
MaxIter == 2

\* the most characters after the protocol in a URL given to the parser
MaxTail == 5

\* ------------------------------------------------------- program constants

\* url_frontier.cpp: url.length() > 10000
MAX_URL_LEN == 10000
\* thread_manager.cpp: int backoff_ms = 10
BACKOFF_START == 10
\* thread_manager.cpp: if (backoff_ms < 500)
BACKOFF_CAP == 500

\* ----------------------------------------------------------------- strings

Str_http == <<"h", "t", "t", "p", ":", "/", "/">>
Str_https == <<"h", "t", "t", "p", "s", ":", "/", "/">>
Str_www == <<"w", "w", "w", ".">>
Str_proto == <<":", "/", "/">>

\* Utils::starts_with
starts_with(str, prefix) ==
    /\ Len(str) >= Len(prefix)
    /\ SubSeq(str, 1, Len(prefix)) = prefix

\* std::tolower on the characters the model's URLs use
tolower(c) ==
    CASE c = "A" -> "a"
      [] c = "B" -> "b"
      [] c = "W" -> "w"
      [] OTHER -> c

\* Utils::to_lowercase
to_lowercase(str) == [k \in 1..Len(str) |-> tolower(str[k])]

\* std::string::find(char): the first position (1-based) of c, 0 for npos
find_char(str, c) ==
    IF \E k \in 1..Len(str) : str[k] = c
    THEN CHOOSE k \in 1..Len(str) :
             /\ str[k] = c
             /\ \A j \in 1..(k - 1) : str[j] # c
    ELSE 0

\* std::string::find(string): the first position (1-based) of sub, 0 for npos
find_str(str, sub) ==
    LET hits == {k \in 1..(Len(str) - Len(sub) + 1) :
                    SubSeq(str, k, k + Len(sub) - 1) = sub}
    IN IF hits = {} THEN 0
       ELSE CHOOSE k \in hits : \A j \in hits : k <= j

\* str.substr(pos) with pos 0-based, as the code writes it
substr_from(str, pos) == SubSeq(str, pos + 1, Len(str))

\* the longest prefix of str that holds no '/': what [^/]+ matches
upto_slash(str) ==
    LET p == find_char(str, "/")
    IN IF p = 0 THEN str ELSE SubSeq(str, 1, p - 1)

\* Downloader::get_domain: ^https?://([^/]+), www. stripped, lowercased
get_domain(u) ==
    LET rest == IF starts_with(u, Str_https) THEN substr_from(u, Len(Str_https))
                ELSE IF starts_with(u, Str_http) THEN substr_from(u, Len(Str_http))
                ELSE <<>>
        host == upto_slash(rest)
    IN IF host = <<>> THEN <<>>
       ELSE to_lowercase(IF starts_with(host, Str_www)
                         THEN substr_from(host, 4) ELSE host)

\* Utils::trim: the string without its leading and trailing blanks (of
\* " \t\n\r" the model's URLs use the space)
trim(str) ==
    LET inked == {k \in 1..Len(str) : str[k] # " "}
    IN IF inked = {} THEN <<>>
       ELSE SubSeq(str, CHOOSE k \in inked : \A j \in inked : k <= j,
                        CHOOSE k \in inked : \A j \in inked : j <= k)

\* std::regex_match(str, ^https?://[^/]+/$): a protocol, a host without '/',
\* and a final '/'
is_domain_only(str) ==
    LET rest == IF starts_with(str, Str_https) THEN substr_from(str, Len(Str_https))
                ELSE IF starts_with(str, Str_http) THEN substr_from(str, Len(Str_http))
                ELSE <<>>
    IN Len(rest) >= 2 /\ find_char(rest, "/") = Len(rest)

\* Parser::normalize_url: cut at the first '#', trim, lowercase, and drop
\* the final '/' of a URL that is only protocol://host/
normalize_url(u) ==
    LET fragment_pos == find_char(u, "#")
        cut == IF fragment_pos # 0 THEN SubSeq(u, 1, fragment_pos - 1) ELSE u
        lowered == to_lowercase(trim(cut))
    IN IF Len(lowered) > 0 /\ lowered[Len(lowered)] = "/" /\ is_domain_only(lowered)
       THEN SubSeq(lowered, 1, Len(lowered) - 1)
       ELSE lowered

\* StorageManager::add_page's own extraction of a link's domain
domain_from_link(link) ==
    LET proto_end == find_str(link, Str_proto)
        d1 == IF proto_end # 0 THEN substr_from(link, (proto_end - 1) + 3) ELSE link
        d2 == upto_slash(d1)
        d3 == IF starts_with(d2, Str_www) THEN substr_from(d2, 4) ELSE d2
    IN to_lowercase(d3)

\* add_page: the domains of the links, empty ones dropped, order and
\* repetitions kept
RECURSIVE outgoing_domains(_)
outgoing_domains(ls) ==
    IF ls = <<>> THEN <<>>
    ELSE LET d == domain_from_link(Head(ls))
         IN (IF d # <<>> THEN <<d>> ELSE <<>>) \o outgoing_domains(Tail(ls))

\* -------------------------------------------------------------------- URLs

URL_A == Str_http \o <<"a">>
URL_A_P == Str_http \o <<"a", "/", "p">>
URL_B == Str_http \o <<"b">>
URL_C == Str_http \o <<"c">>
URL_EMPTY == <<>>
URL_WWW == Str_http \o Str_www
URL_NO_HOST == Str_http \o <<"/", "p">>
URL_FTP == <<"f", "t", "p", ":", "/", "/", "a">>
\* a seed with the http:// prefix and 10,001 characters in all
URL_SEED_LONG == Str_http \o [k \in 1..(MAX_URL_LEN + 1 - Len(Str_http)) |-> "x"]
\* the longest URL the validation lets through, and the shortest it rejects
URL_MAX == [k \in 1..MAX_URL_LEN |-> "x"]
URL_LONG == [k \in 1..(MAX_URL_LEN + 1) |-> "x"]

\* the seeds main is started with: they pass main's http:// test
SeedUrls == {URL_A}
\* the URLs Parser::extract_links can return: valid and normalised
LinkUrls == {URL_A, URL_A_P, URL_B}
\* the seed of a site whose pages all lie in one domain
URL_S == Str_http \o <<"s">>
\* the path made of the given segments: /p/q for <<"p", "q">>
path_of(segments) ==
    [k \in 1..(2 * Len(segments)) |->
        IF k % 2 = 1 THEN "/" ELSE segments[k \div 2]]
\* the pages of that site a crawl within the bounds can come to: the seed
\* and the pages up to MaxBudget + MaxThreads links away from it
SiblingUrls ==
    {URL_S \o path_of(segments) :
        segments \in UNION {[1..k -> {"p", "q"}] : k \in 0..(MaxBudget + MaxThreads)}}

RECURSIVE SetToSeq(_)
\* the elements of a set, in some fixed order
SetToSeq(S) ==
    IF S = {} THEN <<>>
    ELSE CHOOSE out \in {<<x>> \o SetToSeq(S \ {x}) : x \in {CHOOSE y \in S : TRUE}} : TRUE

\* what the fetcher and Parser::extract_links give for page u in the two
\* crawls followed to fixed pages: from the seed http://s every page links to
\* two new pages of its own domain; from the seed http://a the seed's page
\* links to http://b only and the page of http://b has no link
page_links(seed, u) ==
    IF seed = URL_S THEN <<u \o <<"/", "p">>, u \o <<"/", "q">>>>
    ELSE IF u = URL_A THEN <<URL_B>>
    ELSE <<>>

\* the URLs a client of the frontier passes to add_if_not_visited
InputUrls == {URL_A, URL_A_P, URL_B, URL_EMPTY, URL_LONG}
\* the URLs a client of the frontier passes to batch_enqueue
BatchUrls == {URL_A_P, URL_B, URL_EMPTY}
\* the same URLs numbered, so that a log of calls can name its argument
InputTable == <<URL_A, URL_A_P, URL_B, URL_EMPTY, URL_LONG>> \o SetToSeq(SiblingUrls)
InputIndex(u) == CHOOSE k \in 1..Len(InputTable) : InputTable[k] = u

\* the sequences over S of length at most n
SeqsUpTo(S, n) == UNION {[1..k -> S] : k \in 0..n}

\* the characters after the protocol in the URLs given to the parser: a
\* letter, a capital, a dot, a slash, a hash and a blank
UrlChars == {"a", "W", ".", "/", "#", " "}

\* the URLs given to the parser: a protocol and up to MaxTail characters
ParserUrls ==
    {proto \o tail : proto \in {Str_http, Str_https}, tail \in SeqsUpTo(UrlChars, MaxTail)}

\* ------------------------------------------------------------------- state

VARIABLES
    \* main
    mainpc,            \* where main is
    main_i,            \* the loop index of start's and wait_completion's loops
    seed_url,          \* argv[1]
    max_pages,         \* argv[2]
    num_threads,       \* argv[3]
    iterations,        \* the argument main gives compute_pagerank
    \* ThreadManager
    max_pages_limit,   \* std::atomic<int>
    pages_crawled,     \* std::atomic<int>
    \* URLFrontier
    to_visit,          \* std::queue<std::string>
    visited,           \* std::unordered_set<std::string>
    queue_size_,       \* std::atomic<size_t>
    is_done,           \* std::atomic<bool>
    queue_mutex,       \* std::mutex: the thread that holds it, or Free
    \* the progress thread
    progress_pc,       \* where it is
    visited_seen,      \* the last visited_count() it printed
    read_raced,        \* a thread changed visited during its visited_count()
    \* worker_loop's locals, per worker thread
    pc,                \* where the thread is
    thread_id,         \* the thread_id argument
    url,               \* std::string url
    links,             \* the links of the page being handled / the batch
    idx,               \* batch_enqueue's position in links (1-based)
    added,             \* batch_enqueue's added
    backoff_ms,        \* int backoff_ms
    \* StorageManager
    thread_buffers,    \* std::vector<ThreadLocalBuffer>
    link_graph,        \* merged graph
    visit_count,       \* merged visit counts
    nodes,             \* compute_pagerank's node set
    pagerank,          \* the pagerank map
    crawled_csv,       \* the rows export_to_csv writes to crawled_file
    \* what has happened so far (history, read by the properties only)
    pushed,            \* every URL pushed onto to_visit, in order
    admitted,          \* every URL add_if_not_visited returned true for, in order
    dequeued,          \* every URL try_dequeue returned, in order
    add_log,           \* the add_if_not_visited calls made: the argument (its
                       \* number in InputTable) and whether try_dequeue had
                       \* already returned that URL when the call was made
    fetch_count,       \* URL -> number of downloads of it
    buf_access,        \* who touched which shard buffer, and in which phase
    stored,            \* the URLs whose page add_page has recorded
    returned_added     \* the sum of the values batch_enqueue has returned

mainVars == <<mainpc, main_i, seed_url, max_pages, num_threads, iterations>>
managerVars == <<max_pages_limit, pages_crawled>>
frontierVars == <<to_visit, visited, queue_size_, is_done>>
workerVars == <<pc, thread_id, url, links, idx, added, backoff_ms>>
storageVars == <<thread_buffers, link_graph, visit_count, nodes, pagerank, crawled_csv>>
historyVars == <<pushed, admitted, dequeued, add_log, fetch_count, buf_access, stored,
                 returned_added>>
lockVars == <<queue_mutex, progress_pc, visited_seen, read_raced>>
vars == <<mainVars, managerVars, frontierVars, workerVars, storageVars, historyVars,
          lockVars>>

\* queue_mutex when no thread holds it
Free == -1

\* the thread slots of the model; the threads main creates are 0..num_threads-1
Threads == 0..(MaxThreads - 1)
Workers == {w \in Threads : w < num_threads}

\* ------------------------------------------------------ maps (unordered_map)

EmptyMap == [k \in {} |-> 0]
\* m[k] = v
MapPut(m, k, v) == [x \in (DOMAIN m) \cup {k} |-> IF x = k THEN v ELSE m[x]]
\* an int map's m[k], value-initialised to 0 when k is absent
MapGet(m, k) == IF k \in DOMAIN m THEN m[k] ELSE 0

\* the sum of an int map's values
RECURSIVE MapSum(_)
MapSum(m) ==
    IF DOMAIN m = {} THEN 0
    ELSE LET k == CHOOSE x \in DOMAIN m : TRUE
         IN m[k] + MapSum([x \in (DOMAIN m) \ {k} |-> m[x]])

\* struct ThreadLocalBuffer, default-constructed
EmptyBuffer ==
    [local_graph |-> EmptyMap, local_visit_count |-> EmptyMap, local_domains |-> {}]

\* ------------------------------------------------------------- URLFrontier

\* the elements of a sequence
Range(q) == {q[k] : k \in 1..Len(q)}

\* a push at the front: a stack, not a queue
queue_push_front(q, u) == <<u>> \o q

\* a push that drops the URL when another one is waiting
queue_push_if_empty(q, u) == IF q = <<>> THEN Append(q, u) ELSE q

\* std::queue::push
queue_push(q, u) == Append(q, u)

\* an init that queues the seed without marking it visited
init_unmarked(seed) ==
    /\ to_visit' = queue_push(to_visit, seed)
    /\ visited' = visited
    /\ queue_size_' = 1
    /\ is_done' = FALSE
    /\ pushed' = Append(pushed, seed)

\* URLFrontier::init
init(seed) ==
    /\ to_visit' = queue_push(to_visit, seed)
    /\ visited' = visited \cup {seed}
    /\ queue_size_' = 1
    /\ is_done' = FALSE
    /\ pushed' = Append(pushed, seed)

\* URLFrontier::try_dequeue: its return value
try_dequeue_returns == to_visit # <<>>

\* a try_dequeue that reads the front and forgets to pop it
try_dequeue_no_pop == to_visit

\* URLFrontier::try_dequeue: the queue after to_visit.pop()
try_dequeue_pop == Tail(to_visit)

\* URLFrontier::try_dequeue: what it stores in its out parameter, whose
\* value before the call is old
try_dequeue_url(old) == IF to_visit = <<>> THEN old ELSE Head(to_visit)

\* URLFrontier::try_dequeue: what it does to the frontier
try_dequeue ==
    IF to_visit = <<>>
    THEN UNCHANGED <<to_visit, queue_size_, dequeued>>
    ELSE /\ to_visit' = try_dequeue_pop
         /\ queue_size_' = Len(to_visit')
         /\ dequeued' = Append(dequeued, Head(to_visit))

\* the validation without its length test
url_rejected_empty_only(u) == u = <<>>

\* URLFrontier::add_if_not_visited: the validation before the lock
url_rejected(u) == u = <<>> \/ Len(u) > MAX_URL_LEN

\* URLFrontier::add_if_not_visited: its return value
add_if_not_visited_returns(u) == ~url_rejected(u) /\ u \notin visited

\* an add_if_not_visited without the visited.find test: a URL already seen
\* is queued again
add_if_not_visited_requeue(u) ==
    /\ add_log' = add_log \cup
           {[input |-> InputIndex(u), late |-> u \in Range(dequeued)]}
    /\ IF ~url_rejected(u)
       THEN /\ visited' = visited \cup {u}
            /\ to_visit' = queue_push(to_visit, u)
            /\ queue_size_' = Len(to_visit')
            /\ pushed' = Append(pushed, u)
            /\ admitted' = Append(admitted, u)
       ELSE UNCHANGED <<visited, to_visit, queue_size_, pushed, admitted>>

\* URLFrontier::add_if_not_visited
add_if_not_visited(u) ==
    /\ add_log' = add_log \cup
           {[input |-> InputIndex(u), late |-> u \in Range(dequeued)]}
    /\ IF add_if_not_visited_returns(u)
       THEN /\ visited' = visited \cup {u}
            /\ to_visit' = queue_push(to_visit, u)
            /\ queue_size_' = Len(to_visit')
            /\ pushed' = Append(pushed, u)
            /\ admitted' = Append(admitted, u)
       ELSE UNCHANGED <<visited, to_visit, queue_size_, pushed, admitted>>

\* URLFrontier::batch_enqueue: one pass of its loop, by thread w
\* a count of the URLs offered, admitted or not
count_added_offered(n, was_added) == n + 1

\* if (add_if_not_visited(url)) added++
count_added(n, was_added) == IF was_added THEN n + 1 ELSE n

batch_enqueue_step(w) ==
    /\ add_if_not_visited(links[w][idx[w]])
    /\ added' = [added EXCEPT ![w] =
                    count_added(@, add_if_not_visited_returns(links[w][idx[w]]))]
    /\ idx' = [idx EXCEPT ![w] = @ + 1]

\* URLFrontier::batch_enqueue: return added, once the loop has passed the
\* last URL; the sum of the values returned so far, after thread w's pass
batch_enqueue_returned(w) ==
    IF idx[w] >= Len(links[w]) THEN returned_added + added'[w] ELSE returned_added

\* ---------------------------------------------------------- StorageManager

\* a count that leaves the entry as it was found
count_visit_skipped(c) == c

\* a count that marks the domain as seen instead of counting its pages
count_visit_once(c) == 1

\* buffer.local_visit_count[domain]++
count_visit(c) == c + 1

\* an add_page that gives a page without links no entry in the graph
add_page_linked_only(bufs, tid, domain, outgoing_links) ==
    [bufs EXCEPT ![tid] =
        [local_graph |->
             IF outgoing_links = <<>> THEN @.local_graph
             ELSE MapPut(@.local_graph, domain, outgoing_domains(outgoing_links)),
         local_visit_count |->
             MapPut(@.local_visit_count, domain,
                    count_visit(MapGet(@.local_visit_count, domain))),
         local_domains |-> @.local_domains \cup {domain}]]

\* StorageManager::add_page(thread_id, domain, outgoing_links) on the buffers
add_page(bufs, tid, domain, outgoing_links) ==
    [bufs EXCEPT ![tid] =
        [local_graph |-> MapPut(@.local_graph, domain, outgoing_domains(outgoing_links)),
         local_visit_count |->
             MapPut(@.local_visit_count, domain,
                    count_visit(MapGet(@.local_visit_count, domain))),
         local_domains |-> @.local_domains \cup {domain}]]

\* a merge that keeps the list a domain already has
merge_graph_keep_first(g, local_graph) ==
    [d \in (DOMAIN g) \cup (DOMAIN local_graph) |->
        IF d \in DOMAIN g THEN g[d] ELSE local_graph[d]]

\* a merge that leaves out the domains without links
merge_graph_linked_only(g, local_graph) ==
    [d \in (DOMAIN g) \cup {k \in DOMAIN local_graph : local_graph[k] # <<>>} |->
        IF d \in DOMAIN local_graph THEN local_graph[d] ELSE g[d]]

\* merge_all_buffers, one buffer's graph: link_graph[domain] = links
merge_graph(g, local_graph) ==
    [d \in (DOMAIN g) \cup (DOMAIN local_graph) |->
        IF d \in DOMAIN local_graph THEN local_graph[d] ELSE g[d]]

\* counts merged the way the graph is: visit_count[domain] = count
merge_counts_overwrite(v, local_visit_count) ==
    [d \in (DOMAIN v) \cup (DOMAIN local_visit_count) |->
        IF d \in DOMAIN local_visit_count THEN local_visit_count[d] ELSE v[d]]

\* merge_all_buffers, one buffer's counts: visit_count[domain] += count
merge_counts(v, local_visit_count) ==
    [d \in (DOMAIN v) \cup (DOMAIN local_visit_count) |->
        MapGet(v, d) + MapGet(local_visit_count, d)]

\* merge_all_buffers: the buffers i..n-1 in index order, onto g
RECURSIVE merged_graph(_, _, _, _)
merged_graph(bufs, i, n, g) ==
    IF i >= n THEN g
    ELSE merged_graph(bufs, i + 1, n, merge_graph(g, bufs[i].local_graph))

\* merge_all_buffers: the counts of the buffers i..n-1, onto v
RECURSIVE merged_counts(_, _, _, _)
merged_counts(bufs, i, n, v) ==
    IF i >= n THEN v
    ELSE merged_counts(bufs, i + 1, n, merge_counts(v, bufs[i].local_visit_count))

\* compute_pagerank, step 1: the keys and every destination
\* a node set made of the sources only
node_set_keys_only(g) == DOMAIN g

node_set(g) == (DOMAIN g) \cup UNION {{g[d][k] : k \in 1..Len(g[d])} : d \in DOMAIN g}

\* ---------------------------------------- StorageManager::compute_pagerank
\* A rank vector of doubles is modelled exactly: rank n is num[n] / den, the
\* vector kept in lowest terms.

\* const double damping = 0.85, as DAMPING_NUM / DAMPING_DEN
DAMPING_NUM == 85
DAMPING_DEN == 100

\* the pagerank map before compute_pagerank has run: no entry
EmptyRank == [num |-> EmptyMap, den |-> 1]

\* In the recursive operators below each argument of a call is first bound
\* as the only element of a set, so that it is a value computed once and not
\* an expression computed again at every use inside the call.

RECURSIVE SetSum(_, _)
\* the sum of f over the set S
SetSum(f, S) ==
    IF S = {} THEN 0
    ELSE CHOOSE total \in {f[x] + SetSum(f, rest) :
                               <<x, rest>> \in {<<y, S \ {y}>> : y \in {CHOOSE z \in S : TRUE}}} : TRUE

RECURSIVE SetProduct(_)
\* the product of a set of positive integers
SetProduct(S) ==
    IF S = {} THEN 1
    ELSE CHOOSE total \in {x * SetProduct(rest) :
                               <<x, rest>> \in {<<y, S \ {y}>> : y \in {CHOOSE z \in S : TRUE}}} : TRUE

RECURSIVE Gcd(_, _)
Gcd(a, b) == IF b = 0 THEN a ELSE CHOOSE g \in {Gcd(b, r) : r \in {a % b}} : TRUE

RECURSIVE GcdOf(_, _)
\* the greatest common divisor of den and every value of num
GcdOf(num, den) ==
    IF DOMAIN num = {} THEN den
    ELSE CHOOSE g \in {GcdOf(rest, d) :
                           <<rest, d>> \in {<<[y \in (DOMAIN num) \ {x} |-> num[y]], Gcd(den, num[x])>> :
                                               x \in {CHOOSE z \in DOMAIN num : TRUE}}} : TRUE

\* the same rank vector in lowest terms
Reduced(num, den) ==
    CHOOSE r \in {[num |-> [n \in DOMAIN num |-> num[n] \div g], den |-> den \div g] :
                      g \in {GcdOf(num, den)}} : TRUE

\* a test that takes only the nodes without an entry for dangling
is_dangling_no_entry(g, n) == n \notin DOMAIN g

\* it == link_graph.end() || it->second.empty(): n has no outgoing link
is_dangling(g, n) == n \notin DOMAIN g \/ g[n] = <<>>

\* a common multiple of the out-degrees of g, so that every quotient by an
\* outdeg is a whole number of units
outdeg_scale(g) == SetProduct({Len(g[n]) : n \in {m \in DOMAIN g : g[m] # <<>>}})

\* the destinations a source adds its contribution to, each once
edge_targets_distinct(outgoing) ==
    LET S == {outgoing[k] : k \in 1..Len(outgoing)}
        first(x) == CHOOSE k \in 1..Len(outgoing) :
                        outgoing[k] = x /\ \A j \in 1..(k - 1) : outgoing[j] # x
    IN [k \in 1..Cardinality(S) |->
           CHOOSE x \in S : Cardinality({y \in S : first(y) < first(x)}) = k - 1]

\* for (const auto& dst : outgoing): one pass per entry of the list
edge_targets(outgoing) == outgoing

RECURSIVE add_contribution(_, _, _)
\* for (dst : outgoing) new_pr[dst] += contribution
add_contribution(new_pr, targets, contribution) ==
    IF targets = <<>> THEN new_pr
    ELSE CHOOSE out \in {add_contribution(added_, rest, contribution) :
                             <<added_, rest>> \in
                                 {<<[new_pr EXCEPT ![Head(targets)] = @ + contribution],
                                    Tail(targets)>>}} : TRUE

RECURSIVE distribute(_, _, _, _, _)
\* for (n : nodes) { skip the dangling; contribution = damping * (pagerank[n]
\* / outdeg); add it to every dst }, in units of 1 / (DAMPING_DEN * N * den * L)
distribute(new_pr, todo, g, num, scale) ==
    IF todo = {} THEN new_pr
    ELSE CHOOSE out \in
             {distribute(next_pr, rest, g, num, scale) :
                 <<next_pr, rest>> \in
                     {<<IF is_dangling(g, n)
                        THEN new_pr
                        ELSE add_contribution(new_pr, edge_targets(g[n]),
                                 DAMPING_NUM * num[n] * (scale \div Len(g[n]))),
                        todo \ {n}>> : n \in {CHOOSE m \in todo : TRUE}}} : TRUE

\* a normalisation by the largest entry instead of the sum
normalized_by_max(new_pr, units) ==
    CHOOSE r \in {Reduced(new_pr, top) :
                      top \in {CHOOSE x \in {new_pr[n] : n \in DOMAIN new_pr} :
                                   \A n \in DOMAIN new_pr : new_pr[n] <= x}} : TRUE

\* sum the entries; if (sum > 0.0) multiply each by 1.0 / sum.  new_pr is in
\* units of 1 / units.
normalized(new_pr, units) ==
    CHOOSE r \in {IF sum > 0 THEN Reduced(new_pr, sum) ELSE Reduced(new_pr, units) :
                      sum \in {SetSum(new_pr, DOMAIN new_pr)}} : TRUE

\* one pass of the iteration loop up to the normalisation: new_pr with the
\* teleport term, the contributions along the edges and the dangling share,
\* in units of 1 / units
new_pr_before_normalize(g, ns, r) ==
    CHOOSE out \in
        {[new_pr |-> new_pr, units |-> DAMPING_DEN * N * r.den * L] :
            <<N, L, new_pr>> \in
                {<<N1, L1, [n \in ns |-> with_edges[n] + DAMPING_NUM * dangling_mass * L1]>> :
                    <<N1, L1, dangling_mass, with_edges>> \in
                        {<<N0, L0,
                           SetSum(r.num, {n \in ns : is_dangling(g, n)}),
                           distribute([n \in ns |-> (DAMPING_DEN - DAMPING_NUM) * r.den * L0],
                                      ns, g, r.num, N0 * L0)>> :
                            <<N0, L0>> \in {<<Cardinality(ns), outdeg_scale(g)>>}}}} : TRUE

\* one pass of the iteration loop on the rank vector r over the node set ns
pagerank_iteration(g, ns, r) ==
    CHOOSE out \in {normalized(b.new_pr, b.units) :
                        b \in {new_pr_before_normalize(g, ns, r)}} : TRUE

RECURSIVE pagerank_loop(_, _, _, _)
\* for (int iter = 0; iter < iterations; ++iter)
pagerank_loop(g, ns, r, todo) ==
    IF todo <= 0 THEN r
    ELSE CHOOSE out \in {pagerank_loop(g, ns, next, left) :
                             <<next, left>> \in {<<pagerank_iteration(g, ns, r), todo - 1>>}} : TRUE

\* compute_pagerank(iters) on the merged graph g, the pagerank map being old
compute_pagerank(g, old, iters) ==
    CHOOSE out \in
        {IF ns = {} THEN old
         ELSE pagerank_loop(g, ns, start, iters) :
            <<ns, start>> \in {<<all_nodes, [num |-> [n \in all_nodes |-> 1],
                                              den |-> Cardinality(all_nodes)]>> :
                                   all_nodes \in {node_set(g)}}} : TRUE

\* StorageManager::get_visit_count(domain) on the merged counts v
get_visit_count(v, domain) == IF domain \in DOMAIN v THEN v[domain] ELSE 0

\* rows whose outgoing_links counts the distinct destinations
crawled_rows_distinct_links(g, v) ==
    {[domain |-> d, outgoing_links |-> Cardinality({g[d][k] : k \in 1..Len(g[d])}),
      visit_count |-> MapGet(v, d)] : d \in DOMAIN g}

\* export_to_csv: the rows of crawled_file
crawled_rows(g, v) ==
    {[domain |-> d, outgoing_links |-> Len(g[d]), visit_count |-> MapGet(v, d)] :
        d \in DOMAIN g}

\* -------------------------------------------------------------------- Init

\* main with its arguments taken from the given sets, after it has checked
\* them and called storage.init(num_threads); ThreadManager crawler is
\* constructed and start is about to be called
MainInit(seeds, budgets, counts) ==
    /\ mainpc = "start"
    /\ main_i = 0
    /\ seed_url \in seeds
    /\ max_pages \in budgets
    /\ num_threads \in counts
    /\ iterations = MaxIter
    /\ max_pages_limit = 0
    /\ pages_crawled = 0
    /\ to_visit = <<>>
    /\ visited = {}
    /\ queue_size_ = 0
    /\ is_done = FALSE
    /\ queue_mutex = Free
    /\ progress_pc = "unborn"
    /\ visited_seen = 0
    /\ read_raced = FALSE
    /\ pc = [w \in Threads |-> "unborn"]
    /\ thread_id = [w \in Threads |-> 0]
    /\ url = [w \in Threads |-> <<>>]
    /\ links = [w \in Threads |-> <<>>]
    /\ idx = [w \in Threads |-> 1]
    /\ added = [w \in Threads |-> 0]
    /\ backoff_ms = [w \in Threads |-> BACKOFF_START]
    /\ thread_buffers = [i \in 0..(num_threads - 1) |-> EmptyBuffer]
    /\ link_graph = EmptyMap
    /\ visit_count = EmptyMap
    /\ nodes = {}
    /\ pagerank = EmptyRank
    /\ crawled_csv = {}
    /\ pushed = <<>>
    /\ admitted = <<>>
    /\ dequeued = <<>>
    /\ add_log = {}
    /\ fetch_count = EmptyMap
    /\ buf_access = {}
    /\ stored = {}
    /\ returned_added = 0

\* the crawls followed: a well-formed seed, any budget and thread count up to
\* the bounds
Init == MainInit(SeedUrls, 1..MaxBudget, 1..MaxThreads)

\* main's test of argv[1]: it must start with http:// or https://
main_accepts(seed) == find_str(seed, Str_http) = 1 \/ find_str(seed, Str_https) = 1

\* what argv[1] can be: a plain URL, a host that is only "www.", no host at
\* all, a URL of 10,001 characters, another protocol, nothing
SeedArgs == {URL_A, URL_WWW, URL_NO_HOST, URL_SEED_LONG, URL_FTP, URL_EMPTY}

\* the crawls main starts on any seed it accepts, with one worker
SeedInit == MainInit({seed \in SeedArgs : main_accepts(seed)}, 1..MaxBudget, {1})

\* ------------------------------------------------ ThreadManager::worker_loop

\* the loop condition written with <=
budget_left_inclusive == pages_crawled <= max_pages_limit

\* the loop condition that stops one page short of the limit
budget_left_one_short == pages_crawled + 1 < max_pages_limit

\* the loop condition that also gives up when the queue is empty
budget_left_or_drained == pages_crawled < max_pages_limit /\ to_visit # <<>>

\* while (pages_crawled.load() < max_pages_limit.load())
budget_left == pages_crawled < max_pages_limit

\* the loop condition, read by worker w
LoopCheck(w) ==
    /\ pc[w] = "loop"
    /\ pc' = [pc EXCEPT ![w] = IF budget_left THEN "dequeue" ELSE "finished"]
    /\ UNCHANGED <<lockVars, mainVars, managerVars, frontierVars, storageVars, historyVars,
                   thread_id, url, links, idx, added, backoff_ms>>

\* if (frontier.try_dequeue(url)) { backoff_ms = 10; ... } else { ... }
TryDequeue(w) ==
    /\ pc[w] = "dequeue"
    /\ try_dequeue
    /\ url' = [url EXCEPT ![w] = try_dequeue_url(@)]
    /\ IF try_dequeue_returns
       THEN /\ backoff_ms' = [backoff_ms EXCEPT ![w] = BACKOFF_START]
            /\ pc' = [pc EXCEPT ![w] = "download"]
       ELSE /\ pc' = [pc EXCEPT ![w] = "qsize"]
            /\ UNCHANGED backoff_ms
    /\ UNCHANGED <<lockVars, mainVars, managerVars, storageVars, visited, is_done,
                   thread_id, links, idx, added,
                   pushed, admitted, add_log, fetch_count, buf_access, stored,
                   returned_added>>

\* a failed fetch that is counted as a page all the same
failed_fetch_counted == "incr"

\* if (html.empty()) continue: back to the loop condition
failed_fetch_pc == "loop"

\* html = downloader.download(url); if (html.empty()) continue;
\* links = parser.extract_links(html, url).  The fetcher and the page are
\* the environment: any outcome, any list of valid links.
Download(w) ==
    /\ pc[w] = "download"
    /\ fetch_count' = MapPut(fetch_count, url[w], MapGet(fetch_count, url[w]) + 1)
    /\ \/ /\ pc' = [pc EXCEPT ![w] = failed_fetch_pc]
          /\ UNCHANGED links
       \/ \E ls \in SeqsUpTo(LinkUrls, MaxLinks) :
            /\ links' = [links EXCEPT ![w] = ls]
            /\ pc' = [pc EXCEPT ![w] = "add_page"]
    /\ UNCHANGED <<lockVars, mainVars, managerVars, frontierVars, storageVars,
                   thread_id, url, idx, added, backoff_ms,
                   pushed, admitted, dequeued, add_log, buf_access, stored,
                   returned_added>>

\* storage_manager.add_page(thread_id, domain, links), and the entry to
\* frontier.batch_enqueue(links)
AddPage(w) ==
    /\ pc[w] = "add_page"
    /\ thread_buffers' =
           add_page(thread_buffers, thread_id[w], get_domain(url[w]), links[w])
    /\ buf_access' = buf_access \cup
           {[by |-> <<"worker", w>>, buf |-> thread_id[w], kind |-> "write"]}
    /\ stored' = stored \cup {url[w]}
    /\ idx' = [idx EXCEPT ![w] = 1]
    /\ added' = [added EXCEPT ![w] = 0]
    /\ pc' = [pc EXCEPT ![w] = IF links[w] = <<>> THEN "incr" ELSE "enqueue"]
    /\ UNCHANGED <<returned_added, lockVars, mainVars, managerVars, frontierVars,
                   link_graph, visit_count, nodes, pagerank, crawled_csv,
                   thread_id, url, links, backoff_ms,
                   pushed, admitted, dequeued, add_log, fetch_count>>

\* frontier.batch_enqueue(links): one add_if_not_visited
BatchEnqueue(w) ==
    /\ pc[w] = "enqueue"
    /\ batch_enqueue_step(w)
    /\ pc' = [pc EXCEPT ![w] = IF idx[w] >= Len(links[w]) THEN "incr" ELSE "enqueue"]
    /\ returned_added' = batch_enqueue_returned(w)
    /\ UNCHANGED <<lockVars, mainVars, managerVars, storageVars, is_done,
                   thread_id, url, links, backoff_ms,
                   dequeued, fetch_count, buf_access, stored>>

\* an increment by two
fetch_add_twice(counter) == counter + 2

\* pages_crawled.fetch_add(1): the new value of the counter
fetch_add(counter) == counter + 1

\* pages_crawled.fetch_add(1), the end of the iteration
FetchAdd(w) ==
    /\ pc[w] = "incr"
    /\ pages_crawled' = fetch_add(pages_crawled)
    /\ links' = [links EXCEPT ![w] = <<>>]
    /\ idx' = [idx EXCEPT ![w] = 1]
    /\ added' = [added EXCEPT ![w] = 0]
    /\ pc' = [pc EXCEPT ![w] = "loop"]
    /\ UNCHANGED <<lockVars, mainVars, max_pages_limit, frontierVars, storageVars, historyVars,
                   thread_id, url, backoff_ms>>

\* if (backoff_ms < 500) backoff_ms *= 2
next_backoff(b) == IF b < BACKOFF_CAP THEN b * 2 ELSE b

\* else { if (frontier.queue_size() == 0) { ...; sleep_for(backoff_ms) } }
QueueSizeCheck(w) ==
    /\ pc[w] = "qsize"
    /\ IF queue_size_ = 0
       THEN /\ backoff_ms' = [backoff_ms EXCEPT ![w] = next_backoff(@)]
            /\ pc' = [pc EXCEPT ![w] = "sleep"]
       ELSE /\ pc' = [pc EXCEPT ![w] = "loop"]
            /\ UNCHANGED backoff_ms
    /\ UNCHANGED <<lockVars, mainVars, managerVars, frontierVars, storageVars, historyVars,
                   thread_id, url, links, idx, added>>

\* a worker that polls again after its sleep without reading the counter
after_sleep_poll == "dequeue"

\* where a worker goes on when its sleep_for returns: the loop condition
after_sleep == "loop"

\* std::this_thread::sleep_for returns
Sleep(w) ==
    /\ pc[w] = "sleep"
    /\ pc' = [pc EXCEPT ![w] = after_sleep]
    /\ UNCHANGED <<lockVars, mainVars, managerVars, frontierVars, storageVars, historyVars,
                   thread_id, url, links, idx, added, backoff_ms>>

WorkerStep(w) ==
    \/ LoopCheck(w)
    \/ TryDequeue(w)
    \/ Download(w)
    \/ AddPage(w)
    \/ BatchEnqueue(w)
    \/ FetchAdd(w)
    \/ QueueSizeCheck(w)
    \/ Sleep(w)

\* -------------------------------------------------------------------- main

\* ThreadManager::start up to the thread creation: the limit is stored and
\* the frontier seeded
MainStart ==
    /\ mainpc = "start"
    /\ max_pages_limit' = max_pages
    /\ init(seed_url)
    /\ mainpc' = "spawn"
    /\ main_i' = 0
    /\ UNCHANGED <<lockVars, seed_url, max_pages, num_threads, iterations, pages_crawled, workerVars,
                   storageVars, admitted, dequeued, add_log, fetch_count, buf_access, stored,
                   returned_added>>

\* every thread given the same thread_id
spawn_thread_id_zero(i) == 0

\* workers.emplace_back(&ThreadManager::worker_loop, this, i, ...): the
\* thread_id the i-th thread is given
spawn_thread_id(i) == i

\* ThreadManager::start, one pass of the thread creation loop; start returns
\* after the last one and main calls wait_completion
MainSpawn ==
    /\ mainpc = "spawn"
    /\ pc' = [pc EXCEPT ![main_i] = "loop"]
    /\ thread_id' = [thread_id EXCEPT ![main_i] = spawn_thread_id(main_i)]
    /\ IF main_i + 1 < num_threads
       THEN /\ main_i' = main_i + 1
            /\ UNCHANGED mainpc
       ELSE /\ main_i' = 0
            /\ mainpc' = "join"
    /\ UNCHANGED <<lockVars, seed_url, max_pages, num_threads, iterations, managerVars, frontierVars,
                   storageVars, historyVars, url, links, idx, added, backoff_ms>>

\* a join that does not wait for the thread
join_returns_at_once(w) == TRUE

\* thread.join() on worker w returns: the thread has left worker_loop
join_returns(w) == pc[w] = "finished"

\* ThreadManager::wait_completion, one pass of the join loop; after the last
\* one frontier.mark_done() and the return to main
MainJoin ==
    /\ mainpc = "join"
    /\ join_returns(main_i)
    /\ IF main_i + 1 < num_threads
       THEN /\ main_i' = main_i + 1
            /\ UNCHANGED <<mainpc, is_done>>
       ELSE /\ main_i' = 0
            /\ is_done' = TRUE
            /\ mainpc' = "merge"
    /\ UNCHANGED <<lockVars, seed_url, max_pages, num_threads, iterations, managerVars,
                   to_visit, visited, queue_size_,
                   workerVars, storageVars, historyVars>>

\* storage.merge_all_buffers()
MainMerge ==
    /\ mainpc = "merge"
    /\ link_graph' = merged_graph(thread_buffers, 0, num_threads, link_graph)
    /\ visit_count' = merged_counts(thread_buffers, 0, num_threads, visit_count)
    /\ buf_access' = buf_access \cup
           {[by |-> <<"main", 0>>, buf |-> i, kind |-> "read"] : i \in 0..(num_threads - 1)}
    /\ mainpc' = "pagerank"
    /\ UNCHANGED <<lockVars, main_i, seed_url, max_pages, num_threads, iterations, managerVars, frontierVars,
                   workerVars, thread_buffers, nodes, pagerank, crawled_csv,
                   pushed, admitted, dequeued, add_log, fetch_count, stored,
                   returned_added>>

\* storage.compute_pagerank(iterations)
MainPagerank ==
    /\ mainpc = "pagerank"
    /\ nodes' = node_set(link_graph)
    /\ pagerank' = compute_pagerank(link_graph, pagerank, iterations)
    /\ mainpc' = "export"
    /\ UNCHANGED <<lockVars, main_i, seed_url, max_pages, num_threads, iterations, managerVars, frontierVars,
                   workerVars, thread_buffers, link_graph, visit_count, crawled_csv,
                   historyVars>>

\* storage.export_to_csv(...), and main returns
MainExport ==
    /\ mainpc = "export"
    /\ crawled_csv' = crawled_rows(link_graph, visit_count)
    /\ mainpc' = "exit"
    /\ UNCHANGED <<lockVars, main_i, seed_url, max_pages, num_threads, iterations, managerVars, frontierVars,
                   workerVars, thread_buffers, link_graph, visit_count, nodes,
                   pagerank, historyVars>>

MainStep ==
    \/ MainStart
    \/ MainSpawn
    \/ MainJoin
    \/ MainMerge
    \/ MainPagerank
    \/ MainExport

Next ==
    \/ MainStep
    \/ \E w \in Threads : WorkerStep(w)

\* the crawl, as main runs it
Spec == Init /\ [][Next]_vars

\* the starts of main the fair crawl is followed from
FairInit ==
    /\ Init
    /\ max_pages <= MaxFairBudget

\* downloader.download(url) and parser.extract_links on a site whose pages
\* are fixed: every fetch succeeds and gives page_links
ScenarioDownload(w) ==
    /\ pc[w] = "download"
    /\ fetch_count' = MapPut(fetch_count, url[w], MapGet(fetch_count, url[w]) + 1)
    /\ links' = [links EXCEPT ![w] = page_links(seed_url, url[w])]
    /\ pc' = [pc EXCEPT ![w] = "add_page"]
    /\ UNCHANGED <<lockVars, mainVars, managerVars, frontierVars, storageVars,
                   thread_id, url, idx, added, backoff_ms,
                   pushed, admitted, dequeued, add_log, buf_access, stored,
                   returned_added>>

ScenarioWorkerStep(w) ==
    \/ LoopCheck(w)
    \/ TryDequeue(w)
    \/ ScenarioDownload(w)
    \/ AddPage(w)
    \/ BatchEnqueue(w)
    \/ FetchAdd(w)
    \/ QueueSizeCheck(w)
    \/ Sleep(w)

ScenarioNext ==
    \/ MainStep
    \/ \E w \in Threads : ScenarioWorkerStep(w)

\* main started on one of the two fixed sites
ScenarioInit == MainInit({URL_A, URL_S}, 1..MaxBudget, 1..MaxThreads)

\* the crawls of the two fixed sites
ScenarioSpec == ScenarioInit /\ [][ScenarioNext]_vars

\* the same crawls under a fair scheduler: the main thread and every worker
\* that can take a step eventually takes one
ScenarioFairSpec ==
    /\ ScenarioInit
    /\ [][ScenarioNext]_vars
    /\ WF_vars(MainStep)
    /\ \A w \in Threads : WF_vars(ScenarioWorkerStep(w))

\* the crawl from any seed main accepts
SeedSpec == SeedInit /\ [][Next]_vars

\* the crawl under a fair scheduler: every thread that can take a step
\* eventually takes one (the fetcher returns, sleep_for returns, the mutex is
\* released)
FairSpec ==
    /\ FairInit
    /\ [][Next]_vars
    /\ WF_vars(MainStep)
    /\ \A w \in Threads : WF_vars(WorkerStep(w))

\* the starts of main from which the queue is followed until it is drained:
\* one worker, any budget
DrainInit == MainInit(SeedUrls, 1..MaxBudget, {1})

\* the crawl from these starts under a fair scheduler: every thread that can
\* take a step eventually takes one (the fetcher returns, sleep_for returns)
DrainSpec ==
    /\ DrainInit
    /\ [][Next]_vars
    /\ WF_vars(MainStep)
    /\ \A w \in Threads : WF_vars(WorkerStep(w))

\* ------------------------------------------- the frontier under any clients

\* a URLFrontier as constructed, and MaxThreads client threads that will call it
FrontierInit ==
    /\ mainpc = "frontier_new"
    /\ main_i = 0
    /\ seed_url \in SeedUrls
    /\ max_pages = 1
    /\ num_threads = MaxThreads
    /\ iterations = MaxIter
    /\ max_pages_limit = 0
    /\ pages_crawled = 0
    /\ to_visit = <<>>
    /\ visited = {}
    /\ queue_size_ = 0
    /\ is_done = FALSE
    /\ queue_mutex = Free
    /\ progress_pc = "unborn"
    /\ visited_seen = 0
    /\ read_raced = FALSE
    /\ pc = [w \in Threads |-> "unborn"]
    /\ thread_id = [w \in Threads |-> w]
    /\ url = [w \in Threads |-> <<>>]
    /\ links = [w \in Threads |-> <<>>]
    /\ idx = [w \in Threads |-> 1]
    /\ added = [w \in Threads |-> 0]
    /\ backoff_ms = [w \in Threads |-> BACKOFF_START]
    /\ thread_buffers = [i \in 0..(num_threads - 1) |-> EmptyBuffer]
    /\ link_graph = EmptyMap
    /\ visit_count = EmptyMap
    /\ nodes = {}
    /\ pagerank = EmptyRank
    /\ crawled_csv = {}
    /\ pushed = <<>>
    /\ admitted = <<>>
    /\ dequeued = <<>>
    /\ add_log = {}
    /\ fetch_count = EmptyMap
    /\ buf_access = {}
    /\ stored = {}
    /\ returned_added = 0

\* init(seed) is called once, before any client thread runs
ClientInit ==
    /\ mainpc = "frontier_new"
    /\ init(seed_url)
    /\ mainpc' = "frontier_ready"
    /\ pc' = [w \in Threads |-> "idle"]
    /\ UNCHANGED <<lockVars, main_i, seed_url, max_pages, num_threads, iterations, managerVars, storageVars,
                   thread_id, url, links, idx, added, backoff_ms,
                   admitted, dequeued, add_log, fetch_count, buf_access, stored,
                   returned_added>>

\* a client thread calls try_dequeue (and drops the URL it is given)
ClientTryDequeue(t) ==
    /\ pc[t] = "idle"
    /\ try_dequeue
    /\ UNCHANGED <<lockVars, mainVars, managerVars, storageVars, visited, is_done,
                   pc, thread_id, url, links, idx, added, backoff_ms,
                   pushed, admitted, add_log, fetch_count, buf_access, stored,
                   returned_added>>

\* a client thread calls add_if_not_visited(u)
ClientAdd(t, u) ==
    /\ pc[t] = "idle"
    /\ add_if_not_visited(u)
    /\ UNCHANGED <<lockVars, mainVars, managerVars, storageVars, is_done, workerVars,
                   dequeued, fetch_count, buf_access, stored,
                   returned_added>>

\* a client thread calls batch_enqueue(urls); an empty batch returns at once
ClientBatchBegin(t, urls) ==
    /\ pc[t] = "idle"
    /\ links' = [links EXCEPT ![t] = urls]
    /\ idx' = [idx EXCEPT ![t] = 1]
    /\ added' = [added EXCEPT ![t] = 0]
    /\ pc' = [pc EXCEPT ![t] = IF urls = <<>> THEN "idle" ELSE "batch"]
    /\ UNCHANGED <<lockVars, mainVars, managerVars, frontierVars, storageVars, historyVars,
                   thread_id, url, backoff_ms>>

\* batch_enqueue: one add_if_not_visited; it returns added after the last one
\* (the caller's vector is dropped then)
ClientBatchStep(t) ==
    /\ pc[t] = "batch"
    /\ add_if_not_visited(links[t][idx[t]])
    /\ added' = [added EXCEPT ![t] =
                    count_added(@, add_if_not_visited_returns(links[t][idx[t]]))]
    /\ IF idx[t] >= Len(links[t])
       THEN /\ pc' = [pc EXCEPT ![t] = "idle"]
            /\ links' = [links EXCEPT ![t] = <<>>]
            /\ idx' = [idx EXCEPT ![t] = 1]
       ELSE /\ idx' = [idx EXCEPT ![t] = @ + 1]
            /\ UNCHANGED <<pc, links>>
    /\ returned_added' = batch_enqueue_returned(t)
    /\ UNCHANGED <<lockVars, mainVars, managerVars, storageVars, is_done,
                   thread_id, url, backoff_ms,
                   dequeued, fetch_count, buf_access, stored>>

ClientStep(t) ==
    \/ ClientTryDequeue(t)
    \/ \E u \in InputUrls : ClientAdd(t, u)
    \/ \E urls \in SeqsUpTo(BatchUrls, MaxLinks) : ClientBatchBegin(t, urls)
    \/ ClientBatchStep(t)

FrontierNext ==
    \/ ClientInit
    \/ \E t \in Threads : ClientStep(t)

\* the frontier called by any clients, in any order, with any URLs
FrontierSpec == FrontierInit /\ [][FrontierNext]_vars

\* --------------------------------- the storage manager under any callers

\* the pages the callers record, and the links those pages hold
StoragePages == {URL_A, URL_B}
StorageLinks == {URL_A, URL_B, URL_C}

\* the most add_page calls followed
MaxStored == 3

\* a StorageManager after init(MaxThreads): empty buffers, nothing merged;
\* compute_pagerank will be given any number of iterations up to MaxIter
StorageInit ==
    /\ mainpc = "storing"
    /\ main_i = 0
    /\ seed_url \in SeedUrls
    /\ max_pages = MaxStored
    /\ num_threads = MaxThreads
    /\ iterations \in 0..MaxIter
    /\ max_pages_limit = MaxStored
    /\ pages_crawled = 0
    /\ to_visit = <<>>
    /\ visited = {}
    /\ queue_size_ = 0
    /\ is_done = FALSE
    /\ queue_mutex = Free
    /\ progress_pc = "unborn"
    /\ visited_seen = 0
    /\ read_raced = FALSE
    /\ pc = [w \in Threads |-> "finished"]
    /\ thread_id = [w \in Threads |-> w]
    /\ url = [w \in Threads |-> <<>>]
    /\ links = [w \in Threads |-> <<>>]
    /\ idx = [w \in Threads |-> 1]
    /\ added = [w \in Threads |-> 0]
    /\ backoff_ms = [w \in Threads |-> BACKOFF_START]
    /\ thread_buffers = [i \in 0..(num_threads - 1) |-> EmptyBuffer]
    /\ link_graph = EmptyMap
    /\ visit_count = EmptyMap
    /\ nodes = {}
    /\ pagerank = EmptyRank
    /\ crawled_csv = {}
    /\ pushed = <<>>
    /\ admitted = <<>>
    /\ dequeued = <<>>
    /\ add_log = {}
    /\ fetch_count = EmptyMap
    /\ buf_access = {}
    /\ stored = {}
    /\ returned_added = 0

\* a caller records a page as worker_loop does: add_page(thread_id,
\* get_domain(url), links), then pages_crawled.fetch_add(1)
StorageAddPage(tid, u, ls) ==
    /\ mainpc = "storing"
    /\ pages_crawled < MaxStored
    /\ thread_buffers' = add_page(thread_buffers, tid, get_domain(u), ls)
    /\ url' = [url EXCEPT ![tid] = u]
    /\ links' = [links EXCEPT ![tid] = ls]
    /\ pages_crawled' = pages_crawled + 1
    /\ UNCHANGED <<lockVars, mainVars, max_pages_limit, frontierVars,
                   link_graph, visit_count, nodes, pagerank, crawled_csv,
                   pc, thread_id, idx, added, backoff_ms, historyVars>>

\* the callers are done: main goes on to merge_all_buffers
StorageDone ==
    /\ mainpc = "storing"
    /\ mainpc' = "merge"
    /\ UNCHANGED <<lockVars, main_i, seed_url, max_pages, num_threads, iterations,
                   managerVars, frontierVars, workerVars, storageVars, historyVars>>

StorageNext ==
    \/ \E tid \in Threads, u \in StoragePages, ls \in SeqsUpTo(StorageLinks, MaxLinks) :
           StorageAddPage(tid, u, ls)
    \/ StorageDone
    \/ MainMerge
    \/ MainPagerank
    \/ MainExport

\* add_page calls with any arguments, then merge, PageRank and export
StorageSpec == StorageInit /\ [][StorageNext]_vars

\* ------------------------------------------- the parser and the downloader

\* thread 0 holds a URL it is about to normalise; nothing else exists yet
ParserInit ==
    /\ mainpc = "parsing"
    /\ main_i = 0
    /\ seed_url \in SeedUrls
    /\ max_pages = 1
    /\ num_threads = 1
    /\ iterations = MaxIter
    /\ max_pages_limit = 0
    /\ pages_crawled = 0
    /\ to_visit = <<>>
    /\ visited = {}
    /\ queue_size_ = 0
    /\ is_done = FALSE
    /\ queue_mutex = Free
    /\ progress_pc = "unborn"
    /\ visited_seen = 0
    /\ read_raced = FALSE
    /\ pc = [w \in Threads |-> IF w = 0 THEN "normalize" ELSE "unborn"]
    /\ thread_id = [w \in Threads |-> w]
    /\ url \in {[w \in Threads |-> IF w = 0 THEN u ELSE <<>>] : u \in ParserUrls}
    /\ links = [w \in Threads |-> <<>>]
    /\ idx = [w \in Threads |-> 1]
    /\ added = [w \in Threads |-> 0]
    /\ backoff_ms = [w \in Threads |-> BACKOFF_START]
    /\ thread_buffers = [i \in 0..(num_threads - 1) |-> EmptyBuffer]
    /\ link_graph = EmptyMap
    /\ visit_count = EmptyMap
    /\ nodes = {}
    /\ pagerank = EmptyRank
    /\ crawled_csv = {}
    /\ pushed = <<>>
    /\ admitted = <<>>
    /\ dequeued = <<>>
    /\ add_log = {}
    /\ fetch_count = EmptyMap
    /\ buf_access = {}
    /\ stored = {}
    /\ returned_added = 0

\* links = <<parser.normalize_url(url)>>
NormalizeUrl(t) ==
    /\ pc[t] = "normalize"
    /\ links' = [links EXCEPT ![t] = <<normalize_url(url[t])>>]
    /\ pc' = [pc EXCEPT ![t] = "get_domain"]
    /\ UNCHANGED <<lockVars, mainVars, managerVars, frontierVars, storageVars,
                   thread_id, url, idx, added, backoff_ms, historyVars>>

\* downloader.get_domain of the URL and of its normalised form
GetDomains(t) ==
    /\ pc[t] = "get_domain"
    /\ nodes' = {get_domain(url[t]), get_domain(links[t][1])}
    /\ pc' = [pc EXCEPT ![t] = "finished"]
    /\ UNCHANGED <<lockVars, mainVars, managerVars, frontierVars,
                   thread_buffers, link_graph, visit_count, pagerank, crawled_csv,
                   thread_id, url, links, idx, added, backoff_ms, historyVars>>

ParserNext == NormalizeUrl(0) \/ GetDomains(0)

ParserSpec == ParserInit /\ [][ParserNext]_vars

\* ------------------------------- the frontier, statement by statement
\* The same calls with the lock_guard, each read and each write of to_visit
\* and visited as steps of their own, and the progress thread of
\* ThreadManager::start beside them.

\* the URLs the callers pass to add_if_not_visited here
MutexUrls == {URL_A, URL_B, URL_EMPTY}

\* the largest value a racing visited.size() is taken to return
MaxSeen == 3

\* where a thread is between taking queue_mutex and releasing it
CsPhases ==
    {"add_find", "add_insert", "add_push", "add_store",
     "deq_empty", "deq_pop", "deq_store", "unlock"}

\* a frontier as constructed, its callers and the progress thread not yet
\* started
MutexInit == FrontierInit

\* ThreadManager::start before the threads exist: the limit is stored and
\* frontier.init(seed_url) runs alone
MutexStart ==
    /\ mainpc = "frontier_new"
    /\ max_pages_limit' = max_pages
    /\ init(seed_url)
    /\ mainpc' = "frontier_ready"
    /\ pc' = [w \in Threads |-> "idle"]
    /\ progress_pc' = "check"
    /\ UNCHANGED <<main_i, seed_url, max_pages, num_threads, iterations, pages_crawled,
                   storageVars, thread_id, url, links, idx, added, backoff_ms,
                   admitted, dequeued, add_log, fetch_count, buf_access, stored, returned_added,
                   queue_mutex, visited_seen, read_raced>>

\* what the steps of a caller leave alone besides the frontier and its own pc
CallerFrame ==
    UNCHANGED <<mainVars, managerVars, storageVars, historyVars, is_done,
                thread_id, links, idx, added, backoff_ms,
                progress_pc, visited_seen>>

\* add_if_not_visited(u), up to the lock_guard: the validation
AddCall(t, u) ==
    /\ pc[t] = "idle"
    /\ url' = [url EXCEPT ![t] = u]
    /\ pc' = [pc EXCEPT ![t] = IF url_rejected(u) THEN "idle" ELSE "add_lock"]
    /\ UNCHANGED <<to_visit, visited, queue_size_, queue_mutex, read_raced>>
    /\ CallerFrame

\* try_dequeue(url), up to the lock_guard
DeqCall(t) ==
    /\ pc[t] = "idle"
    /\ pc' = [pc EXCEPT ![t] = "deq_lock"]
    /\ UNCHANGED <<to_visit, visited, queue_size_, queue_mutex, read_raced, url>>
    /\ CallerFrame

\* std::lock_guard<std::mutex> lock(queue_mutex)
Lock(t) ==
    /\ pc[t] \in {"add_lock", "deq_lock"}
    /\ queue_mutex = Free
    /\ queue_mutex' = t
    /\ pc' = [pc EXCEPT ![t] = IF pc[t] = "add_lock" THEN "add_find" ELSE "deq_empty"]
    /\ UNCHANGED <<to_visit, visited, queue_size_, read_raced, url>>
    /\ CallerFrame

\* if (visited.find(url) != visited.end()) return false
AddFind(t) ==
    /\ pc[t] = "add_find"
    /\ pc' = [pc EXCEPT ![t] = IF url[t] \in visited THEN "unlock" ELSE "add_insert"]
    /\ UNCHANGED <<to_visit, visited, queue_size_, queue_mutex, read_raced, url>>
    /\ CallerFrame

\* visited.insert(url)
AddInsert(t) ==
    /\ pc[t] = "add_insert"
    /\ visited' = visited \cup {url[t]}
    /\ read_raced' = (read_raced \/ progress_pc = "visited_count")
    /\ pc' = [pc EXCEPT ![t] = "add_push"]
    /\ UNCHANGED <<to_visit, queue_size_, queue_mutex, url>>
    /\ CallerFrame

\* to_visit.push(url)
AddPush(t) ==
    /\ pc[t] = "add_push"
    /\ to_visit' = queue_push(to_visit, url[t])
    /\ pc' = [pc EXCEPT ![t] = "add_store"]
    /\ UNCHANGED <<visited, queue_size_, queue_mutex, read_raced, url>>
    /\ CallerFrame

\* a size that counts the element the call has just taken off
stored_size_before_pop(q) == Len(q) + 1

\* to_visit.size(), as queue_size_.store is given it
stored_size(q) == Len(q)

\* queue_size_.store(to_visit.size()), in add_if_not_visited and try_dequeue
StoreSize(t) ==
    /\ pc[t] \in {"add_store", "deq_store"}
    /\ queue_size_' = stored_size(to_visit)
    /\ pc' = [pc EXCEPT ![t] = "unlock"]
    /\ UNCHANGED <<to_visit, visited, queue_mutex, read_raced, url>>
    /\ CallerFrame

\* if (to_visit.empty()) return false
DeqEmpty(t) ==
    /\ pc[t] = "deq_empty"
    /\ pc' = [pc EXCEPT ![t] = IF to_visit = <<>> THEN "unlock" ELSE "deq_pop"]
    /\ UNCHANGED <<to_visit, visited, queue_size_, queue_mutex, read_raced, url>>
    /\ CallerFrame

\* url = to_visit.front(); to_visit.pop()
DeqPop(t) ==
    /\ pc[t] = "deq_pop"
    /\ url' = [url EXCEPT ![t] = try_dequeue_url(@)]
    /\ to_visit' = try_dequeue_pop
    /\ pc' = [pc EXCEPT ![t] = "deq_store"]
    /\ UNCHANGED <<visited, queue_size_, queue_mutex, read_raced>>
    /\ CallerFrame

\* the lock_guard goes out of scope and the call returns
Unlock(t) ==
    /\ pc[t] = "unlock"
    /\ queue_mutex' = Free
    /\ pc' = [pc EXCEPT ![t] = "idle"]
    /\ UNCHANGED <<to_visit, visited, queue_size_, read_raced, url>>
    /\ CallerFrame

\* pages_crawled.fetch_add(1) by a worker between its frontier calls
CountPage(t) ==
    /\ pc[t] = "idle"
    /\ pages_crawled < max_pages_limit
    /\ pages_crawled' = pages_crawled + 1
    /\ UNCHANGED <<mainVars, max_pages_limit, frontierVars, workerVars, storageVars,
                   historyVars, lockVars>>

CallerStep(t) ==
    \/ \E u \in MutexUrls : AddCall(t, u)
    \/ DeqCall(t)
    \/ Lock(t)
    \/ AddFind(t)
    \/ AddInsert(t)
    \/ AddPush(t)
    \/ StoreSize(t)
    \/ DeqEmpty(t)
    \/ DeqPop(t)
    \/ Unlock(t)
    \/ CountPage(t)

\* what the progress thread leaves alone: it only reads
ProgressFrame ==
    UNCHANGED <<mainVars, managerVars, frontierVars, workerVars, storageVars,
                historyVars, queue_mutex>>

\* while (pages_crawled.load() < max_pages_limit.load())
ProgressCheck ==
    /\ progress_pc = "check"
    /\ progress_pc' = IF budget_left THEN "sleep" ELSE "finished"
    /\ UNCHANGED <<visited_seen, read_raced>>
    /\ ProgressFrame

\* sleep_for(1000 ms) returns; the line is printed up to frontier.queue_size()
\* and visited_count() is entered
ProgressVisitedCountBegin ==
    /\ progress_pc = "sleep"
    /\ progress_pc' = "visited_count"
    /\ read_raced' = FALSE
    /\ UNCHANGED visited_seen
    /\ ProgressFrame

\* visited_count() returns visited.size(), read without the lock: any value
\* if a thread changed visited meanwhile
ProgressVisitedCountEnd ==
    /\ progress_pc = "visited_count"
    /\ visited_seen' \in
           IF read_raced THEN 0..MaxSeen ELSE {Cardinality(visited)}
    /\ progress_pc' = "break_check"
    /\ UNCHANGED read_raced
    /\ ProgressFrame

\* if (frontier.queue_size() == 0 && pages_crawled.load() > 0) break
ProgressBreakCheck ==
    /\ progress_pc = "break_check"
    /\ progress_pc' = IF queue_size_ = 0 /\ pages_crawled > 0 THEN "finished" ELSE "check"
    /\ UNCHANGED <<visited_seen, read_raced>>
    /\ ProgressFrame

ProgressStep ==
    \/ ProgressCheck
    \/ ProgressVisitedCountBegin
    \/ ProgressVisitedCountEnd
    \/ ProgressBreakCheck

MutexNext ==
    \/ MutexStart
    \/ \E t \in Threads : CallerStep(t)
    \/ ProgressStep

\* the frontier's statements interleaved, and the progress thread
MutexSpec == MutexInit /\ [][MutexNext]_vars

\* ----------------------------------------------------------------- claims

\* the phases of main after wait_completion has returned
PostCrawl == {"merge", "pagerank", "export", "exit"}

\* worker w holds a dequeued URL it has not finished handling
Processing(w) == pc[w] \in {"download", "add_page", "enqueue", "incr"}

NoDuplicates(q) == \A j, k \in 1..Len(q) : j # k => q[j] # q[k]

\* C1: with N workers and budget B, pages_crawled never exceeds B + N - 1, in
\* any state of the crawl, the final one included.
C1_BudgetBound == pages_crawled <= max_pages + num_threads - 1

\* two workers, and the run has ended with the counter at B + N - 1
C1_Witness ==
    /\ mainpc = "exit"
    /\ num_threads = 2
    /\ pages_crawled = max_pages + num_threads - 1

\* C2: under a fair scheduler, once pages_crawled >= budget every worker
\* leaves its loop and wait_completion returns.
C2_Terminates ==
    (pages_crawled >= max_pages)
        ~> (mainpc \in PostCrawl /\ \A w \in Workers : pc[w] = "finished")

\* the budget has been reached while a worker sleeps in its backoff and main
\* waits in its join
C2_Witness ==
    /\ pages_crawled >= max_pages
    /\ mainpc = "join"
    /\ \E w \in Workers : pc[w] = "sleep" /\ backoff_ms[w] > BACKOFF_START

\* the frontier is seeded and empty, nobody handles a URL, the budget is unmet
Starved ==
    /\ mainpc \in {"spawn", "join"}
    /\ to_visit = <<>>
    /\ \A w \in Threads : ~Processing(w)
    /\ pages_crawled < max_pages_limit

\* C3: from a state in which the queue is empty, no worker handles a URL and
\* the budget is unmet, the crawl stays in such a state for ever: no worker
\* has left or leaves its loop, wait_completion does not return, and
\* nothing is merged, ranked or exported.
C3_NeverExits ==
    /\ [](Starved =>
            /\ \A w \in Threads : pc[w] \in {"unborn", "loop", "dequeue", "qsize", "sleep"}
            /\ link_graph = EmptyMap /\ visit_count = EmptyMap
            /\ nodes = {} /\ crawled_csv = {})
    /\ [][Starved => Starved']_vars

\* all the workers are created and asleep at the longest backoff, the queue
\* is empty and the budget unmet
C3_Witness ==
    /\ Starved
    /\ mainpc = "join"
    /\ num_threads = 2
    /\ \A w \in Workers : pc[w] = "sleep" /\ backoff_ms[w] >= BACKOFF_CAP

\* the URLs add_if_not_visited has been called with
CalledUrls == {InputTable[e.input] : e \in add_log}

\* C4: the URLs add_if_not_visited returned true for are exactly the
\* distinct arguments that are non-empty, at most 10,000 characters long and
\* not the seed, and none got true twice; a URL of exactly 10,000 characters
\* passes the validation.
C4_Uniqueness ==
    /\ Range(admitted) =
           {u \in CalledUrls : u # <<>> /\ Len(u) <= MAX_URL_LEN /\ u # seed_url}
    /\ NoDuplicates(admitted)
    /\ ~url_rejected(URL_MAX)

\* every input has been passed, the empty one, the over-long one and the
\* seed included, and some more than once
C4_Witness ==
    /\ CalledUrls = InputUrls
    /\ Len(admitted) = 2
    /\ \E e \in add_log : e.late

\* C5: every URL in the queue, and every URL ever pushed onto it, is in the
\* visited set, and no URL is pushed twice (the queue holds no duplicates, a
\* dequeued URL does not come back).
C5_QueueInVisited ==
    /\ Range(to_visit) \subseteq visited
    /\ Range(pushed) \subseteq visited
    /\ NoDuplicates(pushed)
    /\ NoDuplicates(to_visit)

\* each URL that was dequeued has been passed to add_if_not_visited again
\* after its dequeue, the seed included
C5_Witness ==
    /\ Len(pushed) = 3
    /\ Len(dequeued) = 3
    /\ \A u \in Range(dequeued) : [input |-> InputIndex(u), late |-> TRUE] \in add_log

\* C6: no URL is returned by two successful try_dequeue calls, and no URL is
\* downloaded twice, by one worker or by two.
C6_NoDoubleFetch ==
    /\ NoDuplicates(dequeued)
    /\ \A u \in DOMAIN fetch_count : fetch_count[u] <= 1
    /\ \A w, v \in Threads : (w # v /\ Processing(w) /\ Processing(v)) => url[w] # url[v]

\* two workers have each dequeued and downloaded a URL and hold them at once
C6_Witness ==
    /\ Len(dequeued) >= 2
    /\ \E w, v \in Workers : w # v /\ pc[w] = "add_page" /\ pc[v] = "add_page"

\* C7: URLs leave the queue in the order add_if_not_visited returned true
\* for them, the seed first: what try_dequeue has returned so far is a prefix
\* of the seed followed by the admitted URLs in admission order.
C7_FIFO ==
    /\ Len(dequeued) <= 1 + Len(admitted)
    /\ dequeued = SubSeq(<<seed_url>> \o admitted, 1, Len(dequeued))

\* two URLs were admitted, one of them after a dequeue, and all were dequeued
C7_Witness ==
    /\ Len(admitted) = 2
    /\ Len(dequeued) = 3
    /\ \E e \in add_log : e.late

\* C8: after merge_all_buffers the merged visit counts sum to pages_crawled.
C8_VisitConservation ==
    mainpc \in {"pagerank", "export", "exit"} => MapSum(visit_count) = pages_crawled

\* the run is merged and two shards had counted the same domain
C8_Witness ==
    /\ mainpc = "pagerank"
    /\ num_threads = 2
    /\ \E d \in DOMAIN visit_count :
         /\ d \in DOMAIN thread_buffers[0].local_visit_count
         /\ d \in DOMAIN thread_buffers[1].local_visit_count

\* the order main's phases follow
PhaseOrder ==
    {<<"start", "spawn">>, <<"spawn", "join">>, <<"join", "merge">>,
     <<"merge", "pagerank">>, <<"pagerank", "export">>, <<"export", "exit">>}

\* once merge is due, a step changes nothing of the workers, the shard
\* buffers, the frontier or the counter
CrawlOver ==
    mainpc \in PostCrawl =>
        UNCHANGED <<workerVars, thread_buffers, frontierVars, pages_crawled>>

\* C9: merge runs only after every worker has left its loop, PageRank only
\* after merge and the export only after PageRank, and no worker takes a
\* step once merge is due.
C9_PhaseOrder ==
    /\ [](mainpc \in PostCrawl => \A w \in Workers : pc[w] = "finished")
    /\ [](mainpc \in {"start", "spawn", "join", "merge"} =>
            link_graph = EmptyMap /\ visit_count = EmptyMap)
    /\ [](mainpc \in {"start", "spawn", "join", "merge", "pagerank"} => nodes = {})
    /\ [](mainpc # "exit" => crawled_csv = {})
    /\ [][mainpc' # mainpc => <<mainpc, mainpc'>> \in PhaseOrder]_vars
    /\ [][CrawlOver]_vars

\* a run of two workers that crawled, merged, ranked and exported
C9_Witness ==
    /\ mainpc = "exit"
    /\ num_threads = 2
    /\ \A i \in 0..1 : thread_buffers[i].local_graph # EmptyMap
    /\ link_graph # EmptyMap /\ nodes # {} /\ crawled_csv # {}

\* C10: a shard buffer is touched by a worker only in add_page, and only by
\* the worker whose thread_id is its index, each worker having a buffer of
\* its own; main touches the buffers in merge and not before.
C10_ShardOwnership ==
    /\ \A a \in buf_access :
         a.by[1] = "worker" =>
            /\ a.kind = "write"
            /\ a.buf = thread_id[a.by[2]]
            /\ a.buf = a.by[2]
    /\ \A w, v \in Workers :
         (w # v /\ pc[w] # "unborn" /\ pc[v] # "unborn") => thread_id[w] # thread_id[v]
    /\ mainpc \notin {"pagerank", "export", "exit"} =>
         \A a \in buf_access : a.by[1] = "worker"
    /\ \A i \in DOMAIN thread_buffers :
         thread_buffers[i] # EmptyBuffer =>
            [by |-> <<"worker", i>>, buf |-> i, kind |-> "write"] \in buf_access

\* both workers have written their buffers and main has merged them
C10_Witness ==
    /\ mainpc = "exit"
    /\ [by |-> <<"worker", 0>>, buf |-> 0, kind |-> "write"] \in buf_access
    /\ [by |-> <<"worker", 1>>, buf |-> 1, kind |-> "write"] \in buf_access
    /\ [by |-> <<"main", 0>>, buf |-> 1, kind |-> "read"] \in buf_access

\* thread t is inside a call that reads or writes to_visit or visited
Accessing(t) == pc[t] \in CsPhases

\* the next statement of thread t writes to_visit or visited
Mutating(t) == pc[t] \in {"add_insert", "add_push", "deq_pop"}

\* C11: every frontier operation that touches to_visit or visited runs
\* holding queue_mutex, so while one thread is at a write of to_visit or
\* visited no other thread, the progress thread included, is inside a call
\* that reads or writes them.
C11_MutualExclusion ==
    \A t \in Threads : Mutating(t) =>
        /\ progress_pc # "visited_count"
        /\ \A u \in Threads \ {t} : ~Accessing(u)

\* C15: whenever no thread holds queue_mutex, queue_size() (the atomic
\* queue_size_) is the length of to_visit.
C15_QueueSizeAgrees == queue_mutex = Free => queue_size_ = Len(to_visit)

\* nobody is in a critical section, after the seed was taken off and
\* another URL was added
C15_Witness ==
    /\ queue_mutex = Free
    /\ \A t \in Threads : pc[t] = "idle"
    /\ Cardinality(visited) = 2
    /\ Len(to_visit) = 1
    /\ seed_url \notin Range(to_visit)
    /\ queue_size_ = 1

\* the shards whose local graph holds domain d
ShardsWith(d) == {i \in 0..(num_threads - 1) : d \in DOMAIN thread_buffers[i].local_graph}

\* the highest of them
HighestShard(d) == CHOOSE i \in ShardsWith(d) : \A j \in ShardsWith(d) : j <= i

\* merge_all_buffers has run
Merged == mainpc \in {"pagerank", "export", "exit"}

\* C12: after merge_all_buffers the keys of the merged graph are the union of
\* the shards' keys, and the list of every domain is the one of the highest
\* shard that holds the domain.
C12_HighestShardWins ==
    Merged =>
        /\ DOMAIN link_graph =
               UNION {DOMAIN thread_buffers[i].local_graph : i \in 0..(num_threads - 1)}
        /\ \A d \in DOMAIN link_graph :
               link_graph[d] = thread_buffers[HighestShard(d)].local_graph[d]

\* merged, with a domain that two shards hold with different lists and a
\* domain that only the lower shard holds
C12_Witness ==
    /\ Merged
    /\ \E d \in DOMAIN link_graph :
           /\ ShardsWith(d) = {0, 1}
           /\ thread_buffers[0].local_graph[d] # thread_buffers[1].local_graph[d]
    /\ \E d \in DOMAIN link_graph : ShardsWith(d) = {0}

\* the URLs of domain d whose page has been recorded
StoredOf(d) == {u \in stored : get_domain(u) = d}

\* C13: deduplication is by URL, not by domain: every URL fetched
\* successfully is recorded whatever its domain, and after the merge the
\* visit count of a domain is the number of distinct URLs of that domain
\* that were recorded, the sum of the shards' counts for it.
C13_PerUrlDedup ==
    /\ \A w \in Workers : pc[w] \in {"enqueue", "incr"} => url[w] \in stored
    /\ Merged =>
           /\ DOMAIN visit_count = {get_domain(u) : u \in stored}
           /\ \A d \in DOMAIN visit_count :
                  /\ visit_count[d] = Cardinality(StoredOf(d))
                  /\ visit_count[d] =
                         SetSum([i \in DOMAIN thread_buffers |->
                                    MapGet(thread_buffers[i].local_visit_count, d)],
                                DOMAIN thread_buffers)

\* merged, two URLs of one domain recorded by different workers, and a URL
\* of another domain as well
C13_Witness ==
    /\ Merged
    /\ {URL_A, URL_A_P, URL_B} \subseteq stored
    /\ visit_count[get_domain(URL_A)] = 2
    /\ MapGet(thread_buffers[0].local_visit_count, get_domain(URL_A)) = 1

\* worker w finishes a fetch in this step and the body is empty
FetchFails(w) == pc[w] = "download" /\ pc'[w] \notin {"download", "add_page"}

\* the URLs whose fetch has failed: fetched, not recorded, and held by no
\* worker any more
FailedUrls ==
    {u \in Range(dequeued) :
        /\ MapGet(fetch_count, u) > 0
        /\ u \notin stored
        /\ \A w \in Workers : Processing(w) => url[w] # u}

\* C14: a failed fetch changes neither pages_crawled nor a shard buffer nor
\* to_visit nor visited, and the worker goes back to its loop condition; the
\* URL stays in visited, is never queued again and never fetched again.
C14_FailedFetch ==
    /\ [][\A w \in Threads : FetchFails(w) =>
              /\ pc'[w] = "loop"
              /\ UNCHANGED <<pages_crawled, thread_buffers, to_visit, visited,
                             queue_size_>>]_vars
    /\ [](\A u \in FailedUrls :
              /\ u \in visited
              /\ u \notin Range(to_visit)
              /\ fetch_count[u] = 1)
    /\ [][FailedUrls \subseteq FailedUrls']_vars

\* a fetch has failed, the URL was offered to the frontier again after its
\* dequeue,
\* and a worker is handling another URL
C14_Witness ==
    /\ \E u \in FailedUrls :
           /\ u # seed_url
           /\ [input |-> InputIndex(u), late |-> TRUE] \in add_log
    /\ \E w \in Workers : Processing(w) /\ url[w] \notin FailedUrls
    /\ pages_crawled >= 1

\* C16: in a run started through main every URL in visited (so every URL in
\* to_visit) is non-empty, at most 10,000 characters long and starts with
\* http:// or https://, the seed included.
C16_VisitedUrlsValid ==
    \A u \in visited \cup Range(to_visit) :
        /\ u # <<>>
        /\ Len(u) <= MAX_URL_LEN
        /\ starts_with(u, Str_http) \/ starts_with(u, Str_https)

\* the empty string as a domain
NoDomain == <<>>

\* C17: no empty domain is ever stored: not as a key of a shard graph or of
\* a shard's counts, not as a key of the merged graph or visits, not in an
\* adjacency list, not as a PageRank node.
C17_NoEmptyDomain ==
    /\ \A i \in DOMAIN thread_buffers :
           /\ NoDomain \notin DOMAIN thread_buffers[i].local_graph
           /\ NoDomain \notin DOMAIN thread_buffers[i].local_visit_count
           /\ NoDomain \notin thread_buffers[i].local_domains
           /\ \A d \in DOMAIN thread_buffers[i].local_graph :
                  NoDomain \notin Range(thread_buffers[i].local_graph[d])
    /\ NoDomain \notin DOMAIN link_graph
    /\ NoDomain \notin DOMAIN visit_count
    /\ \A d \in DOMAIN link_graph : NoDomain \notin Range(link_graph[d])
    /\ NoDomain \notin nodes
    /\ NoDomain \notin DOMAIN pagerank.num

\* compute_pagerank has returned
Ranked == mainpc \in {"export", "exit"}

\* C18: after compute_pagerank on a non-empty merged graph the keys of
\* pagerank are the keys of the graph together with every domain that
\* occurs in an adjacency list, so a domain that is only a destination has
\* a rank.
C18_RankKeys ==
    (Ranked /\ DOMAIN link_graph # {}) =>
        /\ DOMAIN pagerank.num =
               (DOMAIN link_graph) \cup UNION {Range(link_graph[d]) : d \in DOMAIN link_graph}
        /\ \A d \in DOMAIN link_graph : \A x \in Range(link_graph[d]) :
               x \in DOMAIN pagerank.num

\* ranks exist and a domain that is only a destination is among them
C18_Witness ==
    /\ Ranked
    /\ \E d \in DOMAIN link_graph : \E x \in Range(link_graph[d]) :
           x \notin DOMAIN link_graph /\ x \in DOMAIN pagerank.num
    /\ \E d \in DOMAIN link_graph : link_graph[d] = <<>>

\* the nodes of the merged graph without an outgoing link, and the others
Dangling == {n \in nodes : n \notin DOMAIN link_graph \/ Len(link_graph[n]) = 0}
Sources == nodes \ Dangling

\* C19: after any number of PageRank iterations on a non-empty graph the
\* ranks are a probability distribution over the node set: each is >= 0 and
\* they sum to 1 (pagerank.num[n] / pagerank.den is the rank of n).
C19_Distribution ==
    (Ranked /\ DOMAIN link_graph # {}) =>
        /\ pagerank.den > 0
        /\ DOMAIN pagerank.num = nodes
        /\ \A n \in nodes : pagerank.num[n] >= 0
        /\ SetSum(pagerank.num, nodes) = pagerank.den

\* MaxIter iterations have run on a graph with a dangling node and a node
\* with links, and the ranks are no longer uniform
C19_Witness ==
    /\ Ranked
    /\ iterations = MaxIter
    /\ Dangling # {}
    /\ Sources # {}
    /\ \E m, n \in nodes : pagerank.num[m] < pagerank.num[n]

\* the number of entries of the list that are x
Occurrences(list, x) == Cardinality({k \in 1..Len(list) : list[k] = x})

\* a common multiple of the lengths of the adjacency lists
ListScale == SetProduct({Len(link_graph[v]) : v \in Sources})

\* the rank of u after one iteration from the uniform start, counting every
\* occurrence of u in a list, in units of 1 / RankUnits
RankAfterOne(u) ==
    LET N == Cardinality(nodes)
        share == [v \in Sources |->
                     Occurrences(link_graph[v], u) * (ListScale \div Len(link_graph[v]))]
    IN (DAMPING_DEN - DAMPING_NUM) * N * ListScale
       + DAMPING_NUM * N * SetSum(share, Sources)
       + DAMPING_NUM * Cardinality(Dangling) * ListScale
RankUnits == DAMPING_DEN * Cardinality(nodes) * Cardinality(nodes) * ListScale

\* C20: duplicate destinations are kept: the list add_page stores has one
\* entry per link of the page, in order, and in a PageRank iteration a
\* source adds damping * rank / outdeg to a destination once per occurrence
\* in its list (so a source whose links all go to x gives x damping * rank).
C20_MultiEdges ==
    /\ \A tid \in Threads : url[tid] # <<>> =>
           thread_buffers[tid].local_graph[get_domain(url[tid])] =
               [k \in 1..Len(links[tid]) |-> get_domain(links[tid][k])]
    /\ (Ranked /\ iterations = 1 /\ DOMAIN link_graph # {}) =>
           \A u \in nodes : pagerank.num[u] * RankUnits = RankAfterOne(u) * pagerank.den

\* one iteration has run on a graph in which a page has two links to the
\* same domain, stored by the last add_page of a thread
C20_Witness ==
    /\ Ranked
    /\ iterations = 1
    /\ \E tid \in Threads :
           /\ Len(links[tid]) = 2
           /\ get_domain(links[tid][1]) = get_domain(links[tid][2])
           /\ link_graph[get_domain(url[tid])] = <<get_domain(links[tid][1]), get_domain(links[tid][1])>>
    /\ Cardinality(nodes) >= 2

\* the domains that occur in an adjacency list of the merged graph without
\* being a key of it
DestinationOnly ==
    (UNION {Range(link_graph[d]) : d \in DOMAIN link_graph}) \ DOMAIN link_graph

\* C21: after the merge every key of the merged graph has a visit count of
\* at least 1, the merged graph and the merged counts have the same keys,
\* and get_visit_count gives 0 for a domain that is only a destination.
C21_VisitsOfCrawled ==
    Merged =>
        /\ DOMAIN link_graph = DOMAIN visit_count
        /\ \A d \in DOMAIN link_graph : get_visit_count(visit_count, d) >= 1
        /\ \A x \in DestinationOnly : get_visit_count(visit_count, x) = 0

\* merged, with a domain recorded twice, a domain recorded once and a domain
\* that is only a destination
C21_Witness ==
    /\ Merged
    /\ DestinationOnly # {}
    /\ \E d, e \in DOMAIN link_graph : visit_count[d] >= 2 /\ visit_count[e] = 1

\* the URL is one the frontier admits: it starts with http:// or https://
\* and has at most 10,000 characters
Admissible(u) ==
    /\ starts_with(u, Str_http) \/ starts_with(u, Str_https)
    /\ ~url_rejected(u)

\* C22: the domain of the normalised URL is the domain of the URL, for
\* every admissible URL, upper-case characters and a '#' in the authority
\* included.
C22_DomainOfNormalized ==
    \A t \in Threads :
        (pc[t] = "finished" /\ mainpc = "parsing" /\ Admissible(url[t])) =>
            /\ get_domain(links[t][1]) = get_domain(url[t])
            /\ Cardinality(nodes) = 1

\* export_to_csv has written the files
Exported == mainpc = "exit"

C24_RowPerPage ==
    Exported => Cardinality(crawled_csv) = pages_crawled

\* thread t makes one add_if_not_visited of its batch in this step
BatchStepOf(t) ==
    pc[t] \in {"batch", "enqueue"} /\ (idx'[t] # idx[t] \/ pc'[t] # pc[t])

\* C25: batch_enqueue returns the number of URLs this call newly inserted
\* into visited and appended to to_visit: the count starts at 0, each of
\* the call's insertions adds one to it, a URL that is repeated, visited or
\* inadmissible adds nothing, and no step of another thread changes it.
C25_BatchCount ==
    [][\A t \in Threads :
          /\ BatchStepOf(t) =>
                 /\ added'[t] - added[t] = Cardinality(visited' \ visited)
                 /\ added'[t] - added[t] = Len(pushed') - Len(pushed)
                 /\ (added'[t] = added[t] + 1) =>
                        /\ links[t][idx[t]] \notin visited
                        /\ ~url_rejected(links[t][idx[t]])
                        /\ to_visit' = Append(to_visit, links[t][idx[t]])
                 /\ (added'[t] = added[t]) => UNCHANGED <<visited, to_visit>>
          /\ (pc[t] \in {"batch", "enqueue"} /\ ~BatchStepOf(t)) => added'[t] = added[t]
          /\ (pc[t] \notin {"batch", "enqueue"} /\ pc'[t] \in {"batch", "enqueue"}) =>
                 added'[t] = 0 /\ idx'[t] = 1]_vars

\* two batches are under way: one has offered the same URL twice and
\* counted it once so far, the other has had a URL admitted in between
C25_Witness ==
    \E t, u \in Threads :
        /\ t # u
        /\ pc[t] = "batch" /\ links[t] = <<URL_B, URL_B>> /\ idx[t] = 2 /\ added[t] = 1
        /\ pc[u] = "batch" /\ links[u] = <<URL_A_P, URL_EMPTY>> /\ idx[u] = 2 /\ added[u] = 1
        /\ admitted = <<URL_B, URL_A_P>>

\* worker w is inside sleep_for(backoff_ms)
Sleeping(w) == pc[w] = "sleep"

\* C26: a backoff sleep never lasts more than 500 ms, however many
\* dequeues have failed in a row.
C26_SleepAtMostCap ==
    \A w \in Workers : Sleeping(w) => backoff_ms[w] <= BACKOFF_CAP

\* worker w starts a sleep in this step
StartsSleep(w) == ~Sleeping(w) /\ Sleeping(w)'

\* the smaller of two numbers
Min(a, b) == IF a <= b THEN a ELSE b

\* C27: backoff is the worker's own and every successful dequeue resets it:
\* the first sleep after a successful dequeue or after the start lasts
\* 10 ms, and each further sleep in a row lasts twice the one before, up to
\* the cap.  (When a sleep starts its duration is the new backoff_ms; the
\* old backoff_ms is 10 if the worker has not slept since the reset, and
\* the duration of its last sleep otherwise.)
C27_BackoffRow ==
    [][\A w \in Workers :
          /\ (pc[w] = "dequeue" /\ pc'[w] = "download") => backoff_ms'[w] = BACKOFF_START
          /\ (StartsSleep(w) /\ backoff_ms[w] = BACKOFF_START) =>
                 backoff_ms'[w] = BACKOFF_START
          /\ (StartsSleep(w) /\ backoff_ms[w] # BACKOFF_START) =>
                 backoff_ms'[w] = Min(2 * backoff_ms[w], BACKOFF_CAP)
          /\ \A v \in Workers \ {w} :
                 backoff_ms'[w] # backoff_ms[w] => backoff_ms'[v] = backoff_ms[v]]_vars

\* the crawl of the two-page chain: seed http://a, whose page links to
\* http://b only
ChainCrawl == seed_url = URL_A
\* the domains of the chain's two pages
ChainA == get_domain(URL_A)
ChainB == get_domain(URL_B)
\* the crawl of the one-domain site: seed http://s
SiblingCrawl == seed_url = URL_S
\* the ranks sum to 1
RankSumsToOne == SetSum(pagerank.num, DOMAIN pagerank.num) = pagerank.den

\* C28: S3, destination-only node. For any number of workers, the chain
\* crawled with budget 1 ends with the merged graph {a: [b]} and the visits
\* {a: 1}: b is never recorded as a crawled source, while the ranks have an
\* entry for a and one for b.
C28_DestinationOnly ==
    (ChainCrawl /\ max_pages = 1 /\ Exported) =>
        /\ DOMAIN link_graph = {ChainA}
        /\ link_graph[ChainA] = <<ChainB>>
        /\ DOMAIN visit_count = {ChainA}
        /\ visit_count[ChainA] = 1
        /\ DOMAIN pagerank.num = {ChainA, ChainB}

\* C29: S5, sharded visit aggregation. When every page is in the seed's
\* domain and every fetched page gives new distinct links of that domain, the
\* crawl ends in every interleaving with exactly as many merged visits of the
\* seed's domain as the budget.
C29_VisitsEqualBudget ==
    (SiblingCrawl /\ Exported) =>
        get_visit_count(visit_count, get_domain(URL_S)) = max_pages

\* the chain crawled by one worker with budget 2
ChainByOne == ChainCrawl /\ num_threads = 1 /\ max_pages = 2

\* the graph is {a: [b], b: []}, the visits are {a: 1, b: 1}, the node set is
\* {a, b}, b ranks above a and the ranks sum to 1
TwoNodeChainResult ==
        /\ DOMAIN link_graph = {ChainA, ChainB}
        /\ link_graph[ChainA] = <<ChainB>>
        /\ link_graph[ChainB] = <<>>
        /\ DOMAIN visit_count = {ChainA, ChainB}
        /\ visit_count[ChainA] = 1
        /\ visit_count[ChainB] = 1
        /\ nodes = {ChainA, ChainB}
        /\ DOMAIN pagerank.num = {ChainA, ChainB}
        /\ pagerank.num[ChainB] > pagerank.num[ChainA]
        /\ pagerank.num[ChainA] > 0
        /\ RankSumsToOne

\* C30: S2, two-node chain. One worker with budget 2 crawls the chain, the
\* page of b having no link: under a fair scheduler the run terminates, and
\* at its end the graph is {a: [b], b: []}, the visits are {a: 1, b: 1}, the
\* node set is {a, b}, b ranks above a and the ranks sum to 1.
C30_TwoNodeChain ==
    /\ ChainByOne ~> Exported
    /\ []((ChainByOne /\ Exported) => TwoNodeChainResult)

\* the chain has been crawled by one worker with budget 2, both pages were
\* fetched once and the results are exported
C30_Witness ==
    /\ ChainByOne
    /\ Exported
    /\ pages_crawled = 2
    /\ MapGet(fetch_count, URL_A) = 1
    /\ MapGet(fetch_count, URL_B) = 1
    /\ pc[0] = "finished"

\* URLFrontier::init has run
Seeded == mainpc # "start"
\* the URLs counted so far by the batch_enqueue calls that have not returned
AddedInFlight ==
    SetSum([w \in Threads |-> IF pc[w] = "enqueue" THEN added[w] ELSE 0], Threads)

\* C31 as stated: in every state of the seeded frontier with no thread inside
\* a critical section, visited_count is the queue length plus the number of
\* successful try_dequeue calls, and is 1 plus the sum of the values
\* batch_enqueue has returned.
C31_VisitedAccount ==
    (Seeded /\ queue_mutex = Free) =>
        /\ Cardinality(visited) = Len(to_visit) + Len(dequeued)
        /\ Cardinality(visited) = 1 + returned_added

\* C31: in every state of the seeded frontier with no thread inside a
\* critical section, visited_count is the queue length plus the number of
\* successful try_dequeue calls, and is 1 plus the sum of the values
\* batch_enqueue has returned plus what the batch_enqueue calls still running
\* have added so far.
C31_VisitedAccountInFlight ==
    (Seeded /\ queue_mutex = Free) =>
        /\ Cardinality(visited) = Len(to_visit) + Len(dequeued)
        /\ Cardinality(visited) = 1 + returned_added + AddedInFlight

\* one batch_enqueue has returned 1 and another is running, having added one
\* URL; one URL waits in the queue and two have been dequeued
C31_Witness ==
    /\ Seeded
    /\ returned_added = 1
    /\ AddedInFlight = 1
    /\ Cardinality(visited) = 3
    /\ Len(to_visit) = 1
    /\ Len(dequeued) = 2

\* the pages shard i has recorded: the sum of its visit counts
ShardVisits(i) ==
    SetSum(thread_buffers[i].local_visit_count,
           DOMAIN thread_buffers[i].local_visit_count)
\* the pages recorded in all shards
RecordedPages ==
    SetSum([i \in DOMAIN thread_buffers |-> ShardVisits(i)], DOMAIN thread_buffers)
\* the workers between their add_page call and their increment of
\* pages_crawled
Uncounted == {w \in Workers : pc[w] \in {"enqueue", "incr"}}

\* C32: at every instant pages_crawled <= the visits summed over all shards
\* and domains <= pages_crawled + W, W being the number of workers between
\* their add_page and their increment (W <= N): the counter is never ahead of
\* the recorded pages, and it never decreases.
C32_CounterBehindRecords ==
    /\ [](/\ pages_crawled <= RecordedPages
          /\ RecordedPages <= pages_crawled + Cardinality(Uncounted)
          /\ Cardinality(Uncounted) <= num_threads)
    /\ [][pages_crawled' >= pages_crawled]_vars

\* two workers have recorded their page and not counted it yet, after a page
\* that is counted
C32_Witness ==
    /\ Cardinality(Uncounted) = 2
    /\ pages_crawled = 1
    /\ RecordedPages = 3

\* wait_completion has returned
Returned == mainpc \in PostCrawl

\* C33: whenever wait_completion returns, pages_crawled >= the budget; with
\* exactly one worker the final value is exactly the budget.
C33_BudgetMetAtReturn ==
    Returned =>
        /\ pages_crawled >= max_pages
        /\ num_threads = 1 => pages_crawled = max_pages

\* wait_completion has returned to a crawl of one worker with a budget of two
\* pages, both of them recorded
C33_Witness ==
    /\ Returned
    /\ num_threads = 1
    /\ max_pages = 2
    /\ pages_crawled = 2
    /\ Cardinality(stored) = 2

\* compute_pagerank's N == 0 branch on graph g: no node, the warning, and the
\* pagerank map left as it was
EmptyBranch(g) == node_set(g) = {}

\* C34: in every run of main that reaches merge the merged graph has a key,
\* so the node set of PageRank is not empty and its empty-node-set branch is
\* never taken from main; the branch is taken only on a store without any
\* recorded page, where the ranks stay empty.
C34_NodeSetNonEmpty ==
    /\ mainpc = "merge" =>
           \E i \in DOMAIN thread_buffers : thread_buffers[i].local_graph # EmptyMap
    /\ Merged => DOMAIN link_graph # {} /\ ~EmptyBranch(link_graph)
    /\ Ranked => nodes # {} /\ DOMAIN pagerank.num = nodes
    /\ EmptyBranch(link_graph) <=> DOMAIN link_graph = {}
    /\ EmptyBranch(EmptyMap)
    /\ compute_pagerank(EmptyMap, EmptyRank, iterations) = EmptyRank

\* main has ranked a crawl whose only page, the seed's, has no link: one key
\* without links, one node
C34_Witness ==
    /\ Ranked
    /\ DOMAIN link_graph = {get_domain(seed_url)}
    /\ link_graph[get_domain(seed_url)] = <<>>
    /\ nodes = {get_domain(seed_url)}
    /\ DOMAIN pagerank.num = nodes

\* the rank vector compute_pagerank starts from on the merged graph
StartRank ==
    [num |-> [n \in node_set(link_graph) |-> 1], den |-> Cardinality(node_set(link_graph))]
\* the rank vector after k passes of the iteration loop
RankAfter(k) == pagerank_loop(link_graph, node_set(link_graph), StartRank, k)
\* new_pr of pass k + 1, before its normalisation
NewPr(k) == new_pr_before_normalize(link_graph, node_set(link_graph), RankAfter(k))

\* C35: in exact arithmetic new_pr sums to exactly 1 before the
\* normalisation in every iteration (the teleport term, the contributions
\* along the edges and the dangling share keep the mass of a vector that sums
\* to 1), so the normalisation changes no value.
C35_MassConserved ==
    (Merged /\ node_set(link_graph) # {}) =>
        \A k \in 0..(iterations - 1) :
            /\ SetSum(RankAfter(k).num, DOMAIN RankAfter(k).num) = RankAfter(k).den
            /\ SetSum(NewPr(k).new_pr, DOMAIN NewPr(k).new_pr) = NewPr(k).units
            /\ normalized(NewPr(k).new_pr, NewPr(k).units)
                   = Reduced(NewPr(k).new_pr, NewPr(k).units)
            /\ RankAfter(k + 1) = Reduced(NewPr(k).new_pr, NewPr(k).units)

\* a merged graph with a source that has two links, a source without links
\* and a node that is a destination only
C35_Witness ==
    /\ Merged
    /\ \E d \in DOMAIN link_graph : Len(link_graph[d]) = 2
    /\ \E d \in DOMAIN link_graph : link_graph[d] = <<>>
    /\ node_set(link_graph) # DOMAIN link_graph

\* the budget has been reached
BudgetMet == pages_crawled >= max_pages

====
